---- MODULE Spec2Model ----
(***************************************************************************)
(* Model of the POST /MagnetAPI ingestion pipeline of the DBin-TRX         *)
(* repository.  The repository carries three deployable variants of the    *)
(* endpoint:                                                               *)
(*   "single"  src/server.js:1-268     one sensor, authenticateRequest     *)
(*   "multi"   src/server.js:270-973   sensor registry, authenticateSensor *)
(*   "legacy"  src/unnamed/part_000    no authentication, dispatch on cmd  *)
(* A JavaScript value is a tagged record; a JavaScript string is the       *)
(* sequence of its characters; the text of a response message is the       *)
(* sequence of its words and punctuation marks.                            *)
(***************************************************************************)
EXTENDS Integers, Sequences, FiniteSets, TLC

(***************************************************************************)
(* JavaScript values                                                       *)
(***************************************************************************)
Undef == [t |-> "undefined"]
Null == [t |-> "null"]
Str(s) == [t |-> "string", s |-> s]
Bool(b) == [t |-> "boolean", b |-> b]
\* a number is NaN, +/-Infinity, or the finite decimal mant / 10^scale
Num(k, m, e) == [t |-> "number", kind |-> k, mant |-> m, scale |-> e]
NaN == Num("nan", 0, 0)
Fin(m, e) == Num("fin", m, e)
Int10(n) == Fin(n, 0)

IsStr(x) == x.t = "string"
IsNum(x) == x.t = "number"

\* ToBoolean: undefined, null, "", 0 and NaN are falsy (v is the value of the
\* operand, evaluated once)
Truthy(x) ==
  \E v \in {x} :
    CASE v.t = "undefined" -> FALSE
      [] v.t = "null" -> FALSE
      [] v.t = "string" -> Len(v.s) > 0
      [] v.t = "boolean" -> v.b
      [] v.t = "number" -> ~(v.kind = "nan" \/ (v.kind = "fin" /\ v.mant = 0))

Digits == <<"0", "1", "2", "3", "4", "5", "6", "7", "8", "9">>
IsDigit(c) == \E i \in 1..10 : Digits[i] = c
DigitVal(c) == (CHOOSE i \in 1..10 : Digits[i] = c) - 1
\* StrWhiteSpaceChar of the inputs
IsSpace(c) == c \in {" ", "\t", "\n"}

Chars(w) ==
  CASE w = "undefined" -> <<"u", "n", "d", "e", "f", "i", "n", "e", "d">>
    [] w = "null" -> <<"n", "u", "l", "l">>
    [] w = "Infinity" -> <<"I", "n", "f", "i", "n", "i", "t", "y">>
    [] w = "Invalid date" -> <<"I", "n", "v", "a", "l", "i", "d", " ", "d", "a", "t", "e">>

RECURSIVE DropSpaces(_)
DropSpaces(s) ==
  IF s # <<>> /\ IsSpace(Head(s)) THEN DropSpaces(Tail(s)) ELSE s

RECURSIVE DropTrailingSpaces(_)
DropTrailingSpaces(s) ==
  IF s # <<>> /\ IsSpace(s[Len(s)])
    THEN DropTrailingSpaces(SubSeq(s, 1, Len(s) - 1))
    ELSE s

\* String.prototype.trim
Trim(s) == DropTrailingSpaces(DropSpaces(s))

\* length of the longest prefix of s made of decimal digits
RECURSIVE DigitPrefixLen(_)
DigitPrefixLen(s) ==
  IF s # <<>> /\ IsDigit(Head(s)) THEN 1 + DigitPrefixLen(Tail(s)) ELSE 0

\* value of a sequence of decimal digits
RECURSIVE DigitsValue(_)
DigitsValue(s) ==
  IF s = <<>> THEN 0
  ELSE 10 * DigitsValue(SubSeq(s, 1, Len(s) - 1)) + DigitVal(s[Len(s)])

IsPrefix(p, s) == Len(p) <= Len(s) /\ SubSeq(s, 1, Len(p)) = p

\* a finite decimal without trailing zeros in its fraction
RECURSIVE Normalise(_, _)
Normalise(m, e) ==
  IF e > 0 /\ (m % 10) = 0 THEN Normalise(m \div 10, e - 1) ELSE Fin(m, e)

\* the characters ToString gives for the values the handlers parse
ToChars(x) ==
  CASE x.t = "string" -> x.s
    [] x.t = "undefined" -> Chars("undefined")
    [] x.t = "null" -> Chars("null")
    [] OTHER -> <<>>

\* parseFloat on characters: leading white space, sign, Infinity or the
\* longest decimal literal prefix (the inputs carry no exponent part)
ParseFloatChars(s0) ==
  LET s1 == DropSpaces(s0)
      neg == s1 # <<>> /\ Head(s1) = "-"
      s2 == IF s1 # <<>> /\ Head(s1) \in {"-", "+"} THEN Tail(s1) ELSE s1
      ni == DigitPrefixLen(s2)
      rest == SubSeq(s2, ni + 1, Len(s2))
      hasDot == rest # <<>> /\ Head(rest) = "."
      nf == IF hasDot THEN DigitPrefixLen(Tail(rest)) ELSE 0
      ipart == DigitsValue(SubSeq(s2, 1, ni))
      fpart == IF nf > 0 THEN DigitsValue(SubSeq(rest, 2, nf + 1)) ELSE 0
      mag == ipart * (10 ^ nf) + fpart
  IN IF IsPrefix(Chars("Infinity"), s2) THEN Num("inf", IF neg THEN -1 ELSE 1, 0)
     ELSE IF ni + nf = 0 THEN NaN
     ELSE Normalise(IF neg THEN -mag ELSE mag, nf)

\* parseFloat(x)
parseFloat(x) == IF IsNum(x) THEN x ELSE ParseFloatChars(ToChars(x))

\* parseInt on characters, radix 10: white space, sign, longest digit prefix
ParseIntChars(s0) ==
  LET s1 == DropSpaces(s0)
      neg == s1 # <<>> /\ Head(s1) = "-"
      s2 == IF s1 # <<>> /\ Head(s1) \in {"-", "+"} THEN Tail(s1) ELSE s1
      ni == DigitPrefixLen(s2)
      mag == DigitsValue(SubSeq(s2, 1, ni))
  IN IF ni = 0 THEN NaN ELSE Int10(IF neg THEN -mag ELSE mag)

\* parseInt(x)
parseInt(x) ==
  IF IsNum(x)
    THEN (IF x.kind = "fin" THEN Int10((IF x.mant < 0 THEN -1 ELSE 1) *
                                      (((IF x.mant < 0 THEN -x.mant ELSE x.mant)) \div (10 ^ x.scale)))
          ELSE NaN)
    ELSE ParseIntChars(ToChars(x))

isNaN(x) == \E v \in {x} : IsNum(v) /\ v.kind = "nan"


(***************************************************************************)
(* moment.utc(time, 'YYYY-MM-DD HH:mm:ss').local().format(same)            *)
(***************************************************************************)
Pad2(n) == <<Digits[((n \div 10) % 10) + 1], Digits[(n % 10) + 1]>>
Pad4(n) == <<Digits[((n \div 1000) % 10) + 1], Digits[((n \div 100) % 10) + 1]>> \o Pad2(n % 100)

IsLeap(y) == ((y % 4) = 0 /\ (y % 100) # 0) \/ (y % 400) = 0
DaysInMonth(y, mo) ==
  IF mo = 2 THEN (IF IsLeap(y) THEN 28 + 1 ELSE 28)
  ELSE IF mo \in {4, 6, 9, 11} THEN 30 ELSE 31

AllDigits(s) == \A i \in 1..Len(s) : IsDigit(s[i])

\* the fields of a text of the exact shape YYYY-MM-DD HH:mm:ss, or invalid
\* (the inputs are either of that shape or carry no digits at all, so the
\* forgiving matching of moment's non-strict mode is never exercised)
ParseMoment(s) ==
  LET shaped == /\ Len(s) = 19
                /\ s[5] = "-" /\ s[8] = "-" /\ s[11] = " " /\ s[14] = ":" /\ s[17] = ":"
                /\ AllDigits(SubSeq(s, 1, 4)) /\ AllDigits(SubSeq(s, 6, 7))
                /\ AllDigits(SubSeq(s, 9, 10)) /\ AllDigits(SubSeq(s, 12, 13))
                /\ AllDigits(SubSeq(s, 15, 16)) /\ AllDigits(SubSeq(s, 18, 19))
      y == DigitsValue(SubSeq(s, 1, 4))
      mo == DigitsValue(SubSeq(s, 6, 7))
      d == DigitsValue(SubSeq(s, 9, 10))
      h == DigitsValue(SubSeq(s, 12, 13))
      mi == DigitsValue(SubSeq(s, 15, 16))
      se == DigitsValue(SubSeq(s, 18, 19))
  IN IF shaped /\ mo \in 1..12 /\ d >= 1 /\ d <= DaysInMonth(y, mo)
        /\ h < 24 /\ mi < 60 /\ se < 60
       THEN [valid |-> TRUE, y |-> y, mo |-> mo, d |-> d, h |-> h, mi |-> mi, se |-> se]
       ELSE [valid |-> FALSE, y |-> 0, mo |-> 0, d |-> 0, h |-> 0, mi |-> 0, se |-> 0]

\* the wall clock of a zone off hours east of UTC (0 <= off < 24)
ToLocal(m, off) ==
  LET h2 == m.h + off
      roll == h2 >= 24
      lastDay == m.d = DaysInMonth(m.y, m.mo)
      d2 == IF ~roll THEN m.d ELSE IF lastDay THEN 1 ELSE m.d + 1
      mo2 == IF roll /\ lastDay THEN (IF m.mo = 12 THEN 1 ELSE m.mo + 1) ELSE m.mo
      y2 == IF roll /\ lastDay /\ m.mo = 12 THEN m.y + 1 ELSE m.y
  IN [m EXCEPT !.h = h2 % 24, !.d = d2, !.mo = mo2, !.y = y2]

FormatMoment(m) ==
  IF m.valid
    THEN Pad4(m.y) \o <<"-">> \o Pad2(m.mo) \o <<"-">> \o Pad2(m.d) \o <<" ">>
         \o Pad2(m.h) \o <<":">> \o Pad2(m.mi) \o <<":">> \o Pad2(m.se)
    ELSE Chars("Invalid date")

\* localTime of the handlers, for a body time value and the process zone
LocalTime(time, off) ==
  LET m == ParseMoment(ToChars(time))
  IN Str(FormatMoment(IF m.valid THEN ToLocal(m, off) ELSE m))


(***************************************************************************)
(* Requests: headers and JSON body                                         *)
(***************************************************************************)
\* req.headers[name]: absent, or the text received
NoHeader == [has |-> FALSE, v |-> ""]
Hdr(v) == [has |-> TRUE, v |-> v]
\* !req.headers[name]
HeaderFalsy(h) == ~h.has \/ h.v = ""
\* req.headers[name] === text
HeaderIs(h, text) == h.has /\ h.v = text

\* SENSOR_CREDENTIALS in the order Object.entries walks it
SENSOR_CREDENTIALS ==
  << [type |-> "dustbin", m |-> "nhrdata", k |-> "9fg3gk56y9!#z#8g%yswqzd7p3357%x",
      tableName |-> "dustbin_sensor_data"],
     [type |-> "manhole", m |-> "nhrdata", k |-> "wdwsw3qqvw6!u?4zs8yev#ni2nsp#3v#",
      tableName |-> "manhole_sensor_data"] >>

NoConfig == [type |-> "", m |-> "", k |-> "", tableName |-> ""]

\* the credentials authenticateRequest compares with
SingleM == "nhrdata"
SingleK == "9fg3gk56y9!#z#8g%yswqzd7p3357%x"

BodyFields ==
  {"cmd", "device", "battery", "time", "dIndex", "data",
   "battery_low", "dt_state", "dt_waterLV", "dt_x", "dt_y", "dt_z"}

S2(a, b) == Str(<<a, b>>)
DeviceId == <<"D", "B", "-", "0", "1">>
TimeText ==
  <<"2", "0", "2", "4", "-", "0", "1", "-", "0", "1", " ",
    "1", "0", ":", "0", "0", ":", "0", "0">>
LateTimeText ==
  <<"2", "0", "2", "4", "-", "0", "2", "-", "2", "9", " ",
    "2", "0", ":", "3", "0", ":", "0", "0">>

\* the values a request may carry in each place
FieldValues(f) ==
  CASE f = "cmd" -> {Undef, S2("R", "P"), S2("0", "6"), S2("0", "1"), S2("X", "X")}
    [] f = "device" -> {Undef, Str(<<>>), Str(<<" ", " ">>), Str(DeviceId),
                        Str(<<" ">> \o DeviceId \o <<" ">>), Int10(5)}
    [] f = "battery" -> {Undef, Str(<<>>), Str(<<"3", ".", "7">>), Str(<<"4", ".", "1">>),
                         Str(<<"a", "b", "c">>), Str(Chars("Infinity")), Fin(0, 0)}
    [] f = "time" -> {Undef, Str(TimeText), Str(LateTimeText), Str(<<"n", "/", "a">>)}
    [] f = "dIndex" -> {Undef, Str(<<"0", "4", "1", "0">>),
                        Str(<<"0", "0", "1", "0">>), Str(<<"9", "9", "9", "9">>)}
    [] f = "data" -> {Undef, Str(<<>>), S2("8", "2"), Str(<<"a", "b", "c">>)}
    [] f = "battery_low" -> {Undef, Str(<<"1">>), Str(<<"0">>)}
    [] f = "dt_state" -> {Undef, Str(<<"1">>)}
    [] f = "dt_waterLV" -> {Undef, S2("1", "5"), Str(<<"a", "b", "c">>)}
    [] f = "dt_x" -> {Undef, Str(<<"2">>)}
    [] f = "dt_y" -> {Undef, Str(<<"0">>)}
    [] f = "dt_z" -> {Undef, Str(<<"9">>)}

HeaderMValues == {NoHeader, Hdr("nhrdata"), Hdr("NHRDATA")}
HeaderKValues ==
  {NoHeader, Hdr(SENSOR_CREDENTIALS[1].k), Hdr(SENSOR_CREDENTIALS[2].k), Hdr("secret")}

\* end-to-end scenario bodies: a dustbin report and a manhole report
DustbinBody ==
  [f \in BodyFields |->
     CASE f = "cmd" -> S2("R", "P")
       [] f = "device" -> Str(DeviceId)
       [] f = "battery" -> Str(<<"3", ".", "7">>)
       [] f = "time" -> Str(TimeText)
       [] f = "dIndex" -> Str(<<"0", "4", "1", "0">>)
       [] f = "data" -> S2("8", "2")
       [] OTHER -> Undef]

ManholeBody ==
  [f \in BodyFields |->
     CASE f = "cmd" -> S2("0", "6")
       [] f = "device" -> Str(DeviceId)
       [] f = "battery" -> Str(<<"4", ".", "1">>)
       [] f = "time" -> Str(TimeText)
       [] f = "dIndex" -> Str(<<"0", "0", "1", "0">>)
       [] f = "battery_low" -> Str(<<"0">>)
       [] f = "dt_state" -> Str(<<"1">>)
       [] f = "dt_waterLV" -> S2("1", "5")
       [] f = "dt_x" -> Str(<<"2">>)
       [] OTHER -> Undef]

BaseBodies == {DustbinBody, ManholeBody}

\* a request differs from a scenario body in at most this many body fields
MaxDeviations == 2

RECURSIVE Overrides(_, _)
Overrides(b, S) ==
  IF S = {} THEN {b}
  ELSE LET f == CHOOSE x \in S : TRUE
       IN UNION {Overrides([b EXCEPT ![f] = v], S \ {f}) : v \in FieldValues(f)}

Bodies ==
  UNION {Overrides(b, S) :
           b \in BaseBodies,
           S \in {T \in SUBSET BodyFields : Cardinality(T) <= MaxDeviations}}

Requests == [m : HeaderMValues, k : HeaderKValues, body : Bodies]


(***************************************************************************)
(* Responses and handler outcomes                                          *)
(***************************************************************************)
\* res.json({status, message}) with the status call forgotten
JsonDefaultStatus(http, status, message) ==
  [http |-> 200, status |-> status, message |-> message]

\* res.status(http).json({status, message})
Json(http, status, message) == [http |-> http, status |-> status, message |-> message]

MsgAuthMissing == <<"Authentication", "failed", ":", "Missing", "credentials">>
MsgAuthInvalid == <<"Authentication", "failed", ":", "Invalid", "credentials">>
MsgMissingFields == <<"Missing", "required", "fields">>
MsgInvalidCommand == <<"Invalid", "command", "type">>
MsgInvalidIndex == <<"Invalid", "data", "index">>
MsgInvalidValue == <<"Invalid", "battery", "or", "data", "value">>
MsgManholeCommand ==
  <<"Invalid", "command", "type", ".", "Expected", "\"06\"", "for", "manhole", "sensor">>
MsgManholeIndex ==
  <<"Invalid", "data", "index", ".", "Expected", "\"0010\"", "for", "H01", "data", "report">>
MsgManholeValue == <<"Invalid", "battery", "value">>
MsgDatabaseError == <<"Database", "error", ":">>
MsgInternalError == <<"Internal", "server", "error", ":">>
MsgUnknownSensor == <<"Unknown", "sensor", "type", ":">>
MsgTrimTypeError == <<"device.trim", "is", "not", "a", "function">>
MsgLegacyMissing == <<"Missing", "required", "fields", ":", "cmd", "or", "device">>
MsgLegacyUnknown == <<"Unknown", "command", "type", ":">>
MsgLegacyDatabase == <<"Database", "operation", "failed">>
MsgLegacyInternal == <<"Internal", "server", "error">>

\* a handler either answers at once or calls supabase.from(table).insert([record])
Respond(resp) == [kind |-> "respond", resp |-> resp, table |-> "", record |-> Undef]
Insert(table, record) ==
  [kind |-> "insert", resp |-> Json(0, "", <<>>), table |-> table, record |-> record]

\* x || null
OrNull(x) == IF Truthy(x) THEN x ELSE Null
\* x ? parseInt(x) : null
IntOrNull(x) == IF Truthy(x) THEN parseInt(x) ELSE Null

\* the row with the device field as received and the battery cut to an integer
DustbinRowRaw(body, off) ==
  [device_id |-> body.device,
   battery |-> parseInt(body.battery),
   received_time |-> LocalTime(body.time, off),
   received_time_utc |-> body.time,
   data_index |-> body.dIndex,
   overflow_percentage |-> parseInt(body.data),
   raw_data |-> body]

\* the row handleDustbinData inserts
DustbinRow(body, off) ==
  [device_id |-> Str(Trim(body.device.s)),
   battery |-> parseFloat(body.battery),
   received_time |-> LocalTime(body.time, off),
   received_time_utc |-> body.time,
   data_index |-> body.dIndex,
   overflow_percentage |-> parseInt(body.data),
   raw_data |-> body]

\* if (!cmd || !device || !battery || !time || !dIndex || !data)
DustbinMissing(body) ==
  ~Truthy(body.cmd) \/ ~Truthy(body.device) \/ ~Truthy(body.battery)
  \/ ~Truthy(body.time) \/ ~Truthy(body.dIndex) \/ ~Truthy(body.data)

\* a handler that lets every command code through
AnyCommand(body) == FALSE

\* if (cmd !== 'RP')
DustbinWrongCommand(body) == body.cmd # S2("R", "P")

\* a handler that lets every data index through
AnyIndex(body) == FALSE

\* if (dIndex !== '0410')
DustbinWrongIndex(body) == body.dIndex # Str(<<"0", "4", "1", "0">>)

\* if (isNaN(batteryValue) || isNaN(overflowPercentage))
DustbinBadValue(body) == isNaN(parseFloat(body.battery)) \/ isNaN(parseInt(body.data))

\* a handler that compares the data index before the command code
handleDustbinDataIndexFirst(body, config, off) ==
  IF DustbinMissing(body)
    THEN Respond(Json(400, "00", MsgMissingFields))
  ELSE IF DustbinWrongIndex(body)
    THEN Respond(Json(400, "00", MsgInvalidIndex))
  ELSE IF DustbinWrongCommand(body)
    THEN Respond(Json(400, "00", MsgInvalidCommand))
  ELSE IF DustbinBadValue(body)
    THEN Respond(Json(400, "00", MsgInvalidValue))
  ELSE IF ~IsStr(body.device)
    THEN Respond(Json(500, "00", MsgInternalError \o MsgTrimTypeError))
  ELSE Insert(config.tableName, DustbinRow(body, off))

\* handleDustbinData up to its await
handleDustbinData(body, config, off) ==
  IF DustbinMissing(body)
    THEN Respond(Json(400, "00", MsgMissingFields))
  ELSE IF DustbinWrongCommand(body)
    THEN Respond(Json(400, "00", MsgInvalidCommand))
  ELSE IF DustbinWrongIndex(body)
    THEN Respond(Json(400, "00", MsgInvalidIndex))
  ELSE IF DustbinBadValue(body)
    THEN Respond(Json(400, "00", MsgInvalidValue))
  ELSE IF ~IsStr(body.device)
    THEN Respond(Json(500, "00", MsgInternalError \o MsgTrimTypeError))
  ELSE Insert(config.tableName, DustbinRow(body, off))

\* the row handleManholeData inserts
ManholeRow(body, off) ==
  [device_id |-> Str(Trim(body.device.s)),
   battery |-> parseFloat(body.battery),
   battery_low |-> Bool(body.battery_low = Str(<<"1">>)),
   received_time |-> LocalTime(body.time, off),
   received_time_utc |-> body.time,
   data_index |-> body.dIndex,
   cover_status |-> IntOrNull(body.dt_state),
   water_level_cm |-> IntOrNull(body.dt_waterLV),
   x_axis_degree |-> IntOrNull(body.dt_x),
   y_axis_degree |-> IntOrNull(body.dt_y),
   z_axis_degree |-> IntOrNull(body.dt_z),
   raw_data |-> body]

\* if (!cmd || !device || !battery || !time || !dIndex)
ManholeMissing(body) ==
  ~Truthy(body.cmd) \/ ~Truthy(body.device) \/ ~Truthy(body.battery)
  \/ ~Truthy(body.time) \/ ~Truthy(body.dIndex)

\* if (cmd !== '06')
ManholeWrongCommand(body) == body.cmd # S2("0", "6")

\* if (dIndex !== '0010')
ManholeWrongIndex(body) == body.dIndex # Str(<<"0", "0", "1", "0">>)

\* if (isNaN(batteryValue))
ManholeBadValue(body) == isNaN(parseFloat(body.battery))

\* handleManholeData up to its await
handleManholeData(body, config, off) ==
  IF ManholeMissing(body)
    THEN Respond(Json(400, "00", MsgMissingFields))
  ELSE IF ManholeWrongCommand(body)
    THEN Respond(Json(400, "00", MsgManholeCommand))
  ELSE IF ManholeWrongIndex(body)
    THEN Respond(Json(400, "00", MsgManholeIndex))
  ELSE IF ManholeBadValue(body)
    THEN Respond(Json(400, "00", MsgManholeValue))
  ELSE IF ~IsStr(body.device)
    THEN Respond(Json(500, "00", MsgInternalError \o MsgTrimTypeError))
  ELSE Insert(config.tableName, ManholeRow(body, off))

\* the switch of the multi-sensor route handler
DispatchMulti(sensorType, body, config, off) ==
  CASE sensorType = "dustbin" -> handleDustbinData(body, config, off)
    [] sensorType = "manhole" -> handleManholeData(body, config, off)
    [] OTHER -> Respond(Json(400, "00", MsgUnknownSensor \o <<sensorType>>))

\* the row the single-sensor route handler inserts
SingleRow(body, off) ==
  [device_id |-> Str(Trim(body.device.s)),
   battery |-> parseFloat(body.battery),
   received_time |-> LocalTime(body.time, off),
   received_time_utc |-> body.time,
   data_index |-> body.dIndex,
   overflow_percentage |-> parseInt(body.data)]

\* the single-sensor route handler up to its await: the checks of
\* src/server.js:57-87 are those of handleDustbinData, character for character
HandleSingle(body, off) ==
  IF DustbinMissing(body)
    THEN Respond(Json(400, "00", MsgMissingFields))
  ELSE IF DustbinWrongCommand(body)
    THEN Respond(Json(400, "00", MsgInvalidCommand))
  ELSE IF DustbinWrongIndex(body)
    THEN Respond(Json(400, "00", MsgInvalidIndex))
  ELSE IF DustbinBadValue(body)
    THEN Respond(Json(400, "00", MsgInvalidValue))
  ELSE IF ~IsStr(body.device)
    THEN Respond(Json(500, "00", MsgInternalError \o MsgTrimTypeError))
  ELSE Insert("sensor_data", SingleRow(body, off))

\* the rows of the unauthenticated variant
LegacyManholeRow(body, hm, hk, now) ==
  [cmd |-> body.cmd,
   device |-> body.device,
   battery |-> OrNull(parseFloat(body.battery)),
   battery_low |-> OrNull(body.battery_low),
   time |-> body.time,
   d_index |-> body.dIndex,
   dt_state |-> OrNull(body.dt_state),
   dt_water_lv |-> IntOrNull(body.dt_waterLV),
   dt_x |-> IntOrNull(body.dt_x),
   dt_y |-> IntOrNull(body.dt_y),
   dt_z |-> IntOrNull(body.dt_z),
   headers |-> [m |-> hm, k |-> hk],
   received_at |-> now]

LegacyDustbinRow(body, hm, hk, now) ==
  [cmd |-> body.cmd,
   device |-> body.device,
   battery |-> OrNull(parseFloat(body.battery)),
   time |-> body.time,
   d_index |-> body.dIndex,
   overflow_percentage |-> IntOrNull(body.data),
   headers |-> [m |-> hm, k |-> hk],
   received_at |-> now]

\* the route handler of the unauthenticated variant up to its await
HandleLegacy(body, hm, hk, now) ==
  IF ~Truthy(body.cmd) \/ ~Truthy(body.device)
    THEN Respond(Json(200, "00", MsgLegacyMissing))
  ELSE IF body.cmd = S2("0", "6") \/ body.cmd = S2("0", "1")
    THEN Insert("manhole_data", LegacyManholeRow(body, hm, hk, now))
  ELSE IF body.cmd = S2("R", "P")
    THEN Insert("dustbin_data", LegacyDustbinRow(body, hm, hk, now))
  ELSE Respond(Json(200, "00", MsgLegacyUnknown \o ToChars(body.cmd)))

\* what the awaited insert can do: resolve without error, resolve with an
\* error carrying a message, or reject
StoreMessages == {<<>>, <<"duplicate", "key">>}
NoResult == [kind |-> "", message |-> <<>>]
StoreOutcomes ==
  {[kind |-> "ok", message |-> <<>>]}
  \cup [kind : {"error", "reject"}, message : StoreMessages]

\* a continuation that reports success whatever the insert returned
AfterInsertIgnoringError(o) == [http |-> 200, status |-> "01", message |-> <<>>]

\* the handlers of src/server.js after their await
AfterInsert(o) ==
  CASE o.kind = "ok" -> Json(200, "01", <<>>)
    [] o.kind = "error" -> Json(500, "00", MsgDatabaseError \o o.message)
    [] o.kind = "reject" -> Json(500, "00", MsgInternalError \o o.message)

\* the route handler of the unauthenticated variant after its await
AfterInsertLegacy(o) ==
  CASE o.kind = "ok" -> Json(200, "01", <<>>)
    [] o.kind = "error" ->
         Json(200, "00", IF o.message # <<>> THEN o.message ELSE MsgLegacyDatabase)
    [] o.kind = "reject" ->
         Json(200, "00", IF o.message # <<>> THEN o.message ELSE MsgLegacyInternal)

\* authenticateSensor comparing the m header alone
MatchSensorByM(reg, m, k) ==
  LET hits == {i \in 1..Len(reg) : HeaderIs(m, reg[i].m)}
  IN IF hits = {} THEN 0 ELSE CHOOSE i \in hits : \A j \in hits : i <= j

\* the loop of authenticateSensor: the first entry whose m and k both match
MatchSensor(reg, m, k) ==
  LET hits == {i \in 1..Len(reg) :
                 HeaderIs(m, reg[i].m) /\ HeaderIs(k, reg[i].k)}
  IN IF hits = {} THEN 0 ELSE CHOOSE i \in hits : \A j \in hits : i <= j


(***************************************************************************)
(* State                                                                   *)
(***************************************************************************)
VARIABLES
  variant,       \* which of the three servers is running
  tz,            \* hours the process's local zone is east of UTC
  registry,      \* SENSOR_CREDENTIALS as the process holds it
  pc,            \* pc[r]: where request r is in the middleware chain
  hdrM, hdrK,    \* req.headers['m'], req.headers['k']
  body,          \* req.body
  sensorType,    \* req.sensorType ("" while unset)
  sensorConfig,  \* req.sensorConfig (NoConfig while unset)
  resp,          \* resp[r]: the responses sent for request r, in order
  storeCalls,    \* every insert handed to the store, in order
  storeResult    \* storeResult[r]: what the store returned to request r's insert

vars ==
  <<variant, tz, registry, pc, hdrM, hdrK, body, sensorType, sensorConfig, resp, storeCalls,
    storeResult>>

Variants == {"single", "multi", "legacy"}
TzOffsets == {0, 8}
\* values new Date().toISOString() takes
Clock == {Str(<<"t", "1">>), Str(<<"t", "2">>)}

\* requests in flight at once
MaxReq == 2
Reqs == 1..MaxReq

Init ==
  /\ variant \in Variants
  /\ tz \in TzOffsets
  /\ registry = SENSOR_CREDENTIALS
  /\ pc = [r \in Reqs |-> "none"]
  /\ hdrM = [r \in Reqs |-> NoHeader]
  /\ hdrK = [r \in Reqs |-> NoHeader]
  /\ body = [r \in Reqs |-> [f \in BodyFields |-> Undef]]
  /\ sensorType = [r \in Reqs |-> ""]
  /\ sensorConfig = [r \in Reqs |-> NoConfig]
  /\ resp = [r \in Reqs |-> <<>>]
  /\ storeCalls = <<>>
  /\ storeResult = [r \in Reqs |-> NoResult]

\* a POST /MagnetAPI arrives and express.json() has parsed its body
Arrive(r, q) ==
  /\ pc' = [pc EXCEPT ![r] = "received"]
  /\ hdrM' = [hdrM EXCEPT ![r] = q.m]
  /\ hdrK' = [hdrK EXCEPT ![r] = q.k]
  /\ body' = [body EXCEPT ![r] = q.body]
  /\ UNCHANGED <<variant, tz, registry, sensorType, sensorConfig, resp, storeCalls, storeResult>>

Receive(r) ==
  /\ pc[r] = "none"
  /\ \E q \in Requests : Arrive(r, q)

\* an answer followed by a second res.json for the same request
AnswerTwice(r, response) ==
  /\ resp' = [resp EXCEPT ![r] = @ \o <<response, response>>]
  /\ pc' = [pc EXCEPT ![r] = "done"]

\* the request is answered and leaves the chain
Answer(r, response) ==
  /\ resp' = [resp EXCEPT ![r] = Append(@, response)]
  /\ pc' = [pc EXCEPT ![r] = "done"]

\* a handler reaches its outcome o: an immediate answer, or the insert it
\* awaits
Reach(r, outcome) ==
  \E o \in {outcome} :
    IF o.kind = "respond"
      THEN /\ Answer(r, o.resp)
           /\ UNCHANGED storeCalls
      ELSE /\ storeCalls' = Append(storeCalls, [req |-> r, table |-> o.table, record |-> o.record])
           /\ pc' = [pc EXCEPT ![r] = "awaitStore"]
           /\ UNCHANGED resp

\* authenticateRequest of the single-sensor server
authenticateRequest(r) ==
  /\ variant = "single"
  /\ pc[r] = "received"
  /\ IF ~HeaderIs(hdrM[r], SingleM) \/ ~HeaderIs(hdrK[r], SingleK)
       THEN Answer(r, Json(401, "00", MsgAuthInvalid))
       ELSE /\ pc' = [pc EXCEPT ![r] = "authed"]
            /\ UNCHANGED resp
  /\ UNCHANGED <<variant, tz, registry, hdrM, hdrK, body, sensorType, sensorConfig, storeCalls,
                 storeResult>>

\* authenticateSensor of the multi-sensor server
authenticateSensor(r) ==
  /\ variant = "multi"
  /\ pc[r] = "received"
  /\ LET i == MatchSensor(registry, hdrM[r], hdrK[r])
     IN IF HeaderFalsy(hdrM[r]) \/ HeaderFalsy(hdrK[r])
          THEN /\ Answer(r, Json(401, "00", MsgAuthMissing))
               /\ UNCHANGED <<sensorType, sensorConfig>>
        ELSE IF i = 0
          THEN /\ Answer(r, Json(401, "00", MsgAuthInvalid))
               /\ UNCHANGED <<sensorType, sensorConfig>>
        ELSE /\ sensorType' = [sensorType EXCEPT ![r] = registry[i].type]
             /\ sensorConfig' = [sensorConfig EXCEPT ![r] = registry[i]]
             /\ pc' = [pc EXCEPT ![r] = "authed"]
             /\ UNCHANGED resp
  /\ UNCHANGED <<variant, tz, registry, hdrM, hdrK, body, storeCalls, storeResult>>

\* app.post('/MagnetAPI', authenticateRequest, ...) up to its await
PostSingle(r) ==
  /\ variant = "single"
  /\ pc[r] = "authed"
  /\ Reach(r, HandleSingle(body[r], tz))
  /\ UNCHANGED <<variant, tz, registry, hdrM, hdrK, body, sensorType, sensorConfig, storeResult>>

\* a route handler that dispatches on the sensor type of the request that
\* authenticated last, as if the type were kept in a variable of the module
PostMultiSharedType(r) ==
  /\ variant = "multi"
  /\ pc[r] = "authed"
  /\ LET authed == {x \in Reqs : pc[x] = "authed"}
         last == CHOOSE x \in authed : \A y \in authed : y <= x
     IN Reach(r, DispatchMulti(sensorType[last], body[r], sensorConfig[last], tz))
  /\ UNCHANGED <<variant, tz, registry, hdrM, hdrK, body, sensorType, sensorConfig, storeResult>>

\* app.post('/MagnetAPI', authenticateSensor, ...) up to the handler's await
PostMulti(r) ==
  /\ variant = "multi"
  /\ pc[r] = "authed"
  /\ Reach(r, DispatchMulti(sensorType[r], body[r], sensorConfig[r], tz))
  /\ UNCHANGED <<variant, tz, registry, hdrM, hdrK, body, sensorType, sensorConfig, storeResult>>

\* app.post('/MagnetAPI', ...) of the unauthenticated server up to its await
PostLegacy(r) ==
  /\ variant = "legacy"
  /\ pc[r] = "received"
  /\ \E now \in Clock : Reach(r, HandleLegacy(body[r], hdrM[r], hdrK[r], now))
  /\ UNCHANGED <<variant, tz, registry, hdrM, hdrK, body, sensorType, sensorConfig, storeResult>>

\* the awaited insert settles and the suspended handler answers
StoreReturn(r) ==
  /\ pc[r] = "awaitStore"
  /\ \E o \in StoreOutcomes :
       /\ storeResult' = [storeResult EXCEPT ![r] = o]
       /\ Answer(r, IF variant = "legacy" THEN AfterInsertLegacy(o) ELSE AfterInsert(o))
  /\ UNCHANGED <<variant, tz, registry, hdrM, hdrK, body, sensorType, sensorConfig, storeCalls>>

Step(r) ==
  \/ authenticateRequest(r)
  \/ authenticateSensor(r)
  \/ PostSingle(r)
  \/ PostMulti(r)
  \/ PostLegacy(r)
  \/ StoreReturn(r)

\* one request, every input of Requests
Next == Receive(1) \/ Step(1)

Spec == Init /\ [][Next]_vars

\* the requests sent while others are in flight: a dustbin report, a manhole
\* report, a manhole body under the dustbin credentials, a dustbin report
\* without the m header, a manhole report under an unknown key, and a dustbin
\* report whose device is a number
ConcRequests ==
  { [m |-> Hdr("nhrdata"), k |-> Hdr(SENSOR_CREDENTIALS[1].k), body |-> DustbinBody],
    [m |-> Hdr("nhrdata"), k |-> Hdr(SENSOR_CREDENTIALS[2].k), body |-> ManholeBody],
    [m |-> Hdr("nhrdata"), k |-> Hdr(SENSOR_CREDENTIALS[1].k), body |-> ManholeBody],
    [m |-> NoHeader, k |-> Hdr("secret"), body |-> DustbinBody],
    [m |-> Hdr("nhrdata"), k |-> Hdr("secret"), body |-> ManholeBody],
    [m |-> Hdr("nhrdata"), k |-> Hdr(SENSOR_CREDENTIALS[1].k),
     body |-> [DustbinBody EXCEPT !.device = Int10(5)]] }

ReceiveConc(r) ==
  /\ pc[r] = "none"
  /\ \E q \in ConcRequests : Arrive(r, q)

\* the multi-sensor server with every request of Reqs in flight
InitConc == Init /\ variant = "multi"

StepMulti(r) ==
  \/ authenticateSensor(r)
  \/ PostMulti(r)
  \/ StoreReturn(r)

\* requests interleave where the event loop can switch between them: between
\* callbacks and at the await of the insert
NextConc == \E r \in Reqs : ReceiveConc(r) \/ StepMulti(r)

SpecConc == InitConc /\ [][NextConc]_vars

\* one request on any of the three servers, with the event loop running every
\* ready callback and the store settling every insert it was handed
NextLive == ReceiveConc(1) \/ Step(1)

SpecLive == Init /\ [][NextLive]_vars /\ WF_vars(Step(1))


(***************************************************************************)
(* Observations used by the properties                                     *)
(***************************************************************************)
Done(r) == pc[r] = "done"
\* the answer request r got
Reply(r) == resp[r][Len(resp[r])]
\* the inserts made on behalf of request r
InsertsOf(r) == {i \in 1..Len(storeCalls) : storeCalls[i].req = r}
Contains(msg, w) == \E i \in 1..Len(msg) : msg[i] = w
StartsWith(msg, p) == Len(p) <= Len(msg) /\ SubSeq(msg, 1, Len(p)) = p
EndsWith(msg, p) == Len(p) <= Len(msg) /\ SubSeq(msg, Len(msg) - Len(p) + 1, Len(msg)) = p
\* request r carries exactly the credential pair of registry entry i
BearsPair(r, i) == HeaderIs(hdrM[r], registry[i].m) /\ HeaderIs(hdrK[r], registry[i].k)
\* the pair of entry i differs from the pair of every other entry
DistinctPair(i) ==
  \A j \in 1..Len(registry) :
    j # i => ~(registry[j].m = registry[i].m /\ registry[j].k = registry[i].k)
\* the authentication middleware has run for r
PastAuth(r) == pc[r] \in {"authed", "awaitStore", "done"}

(***************************************************************************)
(* C1                                                                      *)
(***************************************************************************)
\* C1: in the multi-sensor server, a request bearing exactly the (m, k) pair
\* of a registered type T whose pair differs from every other registered pair
\* passes authentication with req.sensorType = T and req.sensorConfig = T's
\* entry and is never answered 401, also when another type shares T's m.
C1_ExactPairAuthenticatesAsItsType ==
  variant = "multi" =>
    \A r \in Reqs : \A i \in 1..Len(registry) :
      (DistinctPair(i) /\ BearsPair(r, i) /\ pc[r] \notin {"none", "received"}) =>
        /\ sensorType[r] = registry[i].type
        /\ sensorConfig[r] = registry[i]
        /\ \A j \in 1..Len(registry) : j # i => sensorType[r] # registry[j].type
        /\ \A n \in 1..Len(resp[r]) : resp[r][n].http # 401

\* a manhole request, whose m is also the dustbin m, authenticated as manhole
C1_Witness ==
  /\ variant = "multi"
  /\ \E r \in Reqs :
       /\ BearsPair(r, 2)
       /\ registry[1].m = registry[2].m
       /\ pc[r] = "authed"
       /\ sensorType[r] = "manhole"
       /\ sensorConfig[r].tableName = "manhole_sensor_data"


\* the credential pairs of the registry are known to the running server
Registered(r) == \E i \in 1..Len(registry) : BearsPair(r, i)
\* the registry entries the running server serves
Served == IF variant = "single" THEN {1} ELSE 1..Len(registry)
\* the fields each handler's presence check names
RequiredFields(type) ==
  IF type = "dustbin"
    THEN {"cmd", "device", "battery", "time", "dIndex", "data"}
    ELSE {"cmd", "device", "battery", "time", "dIndex"}
\* the codes each handler compares cmd and dIndex with
ExpectedCommand(type) == IF type = "dustbin" THEN S2("R", "P") ELSE S2("0", "6")
ExpectedIndex(type) ==
  IF type = "dustbin" THEN Str(<<"0", "4", "1", "0">>) ELSE Str(<<"0", "0", "1", "0">>)
ScenarioBody(type) == IF type = "dustbin" THEN DustbinBody ELSE ManholeBody
\* the scenario body with field f omitted or sent empty
Omitting(b, f) == {[b EXCEPT ![f] = v] : v \in {Undef, Str(<<>>)}}

\* the sensor type request r is authenticated as ("" when it is not)
AuthenticatedType(r) ==
  CASE variant = "multi" -> sensorType[r]
    [] variant = "single" ->
         IF pc[r] \in {"authed", "awaitStore"} \/ (Done(r) /\ Reply(r).http # 401)
           THEN "dustbin" ELSE ""
    [] OTHER -> ""
\* the route handler has run for r up to its answer or its await
HandlerRan(r) == pc[r] \in {"awaitStore", "done"}
AllRequiredPresent(r, type) == \A f \in RequiredFields(type) : Truthy(body[r][f])

(***************************************************************************)
(* C2                                                                      *)
(***************************************************************************)
\* C2: every request whose (m, k) headers match no registered sensor type
\* (one or both may be absent) is answered HTTP 401, status "00", with a
\* message containing "Authentication", whatever its body.
C2_UnregisteredPairIsAnswered401 ==
  \A r \in Reqs :
    (Done(r) /\ ~Registered(r)) =>
      /\ Reply(r).http = 401
      /\ Reply(r).status = "00"
      /\ Contains(Reply(r).message, "Authentication")

(***************************************************************************)
(* C3                                                                      *)
(***************************************************************************)
\* C3: for every sensor type the server serves and every required field of
\* it, a request with that type's credentials whose body is the type's valid
\* report with that one field omitted or empty never reaches the store and
\* is answered status "00" with the missing-fields message.
C3_OmittedRequiredFieldIsRejected ==
  \A r \in Reqs : \A i \in Served :
    \A f \in RequiredFields(registry[i].type) :
      (BearsPair(r, i) /\ body[r] \in Omitting(ScenarioBody(registry[i].type), f)
       /\ pc[r] # "none") =>
        /\ InsertsOf(r) = {}
        /\ Done(r) => (Reply(r).status = "00" /\ StartsWith(Reply(r).message, MsgMissingFields))

C6_UniformResponseContract ==
  \A r \in Reqs :
    Done(r) =>
      IF Registered(r) /\ InsertsOf(r) # {} /\ storeResult[r].kind = "ok"
        THEN Reply(r).status = "01" /\ Reply(r).message = <<>>
        ELSE Reply(r).status = "00" /\ Reply(r).message # <<>>

(***************************************************************************)
(* C7                                                                      *)
(***************************************************************************)
\* the value of a text of the shape d.d and of a text of two digits
TenthsOf(text) == Fin(10 * DigitVal(text[1]) + DigitVal(text[3]), 1)
TwoDigitsOf(text) == Fin(10 * DigitVal(text[1]) + DigitVal(text[2]), 0)
WellFormedDevices == {Str(DeviceId), Str(<<" ">> \o DeviceId \o <<" ">>)}
WellFormedBatteries == {Str(<<"3", ".", "7">>), Str(<<"4", ".", "1">>)}
WellFormedTimes == {Str(TimeText), Str(LateTimeText)}
\* the table the running server keeps dustbin rows in
DustbinStore == IF variant = "single" THEN "sensor_data" ELSE registry[1].tableName
\* request r bears the dustbin credentials and a well-formed dustbin report
DustbinReport(r) ==
  /\ BearsPair(r, 1)
  /\ body[r].cmd = S2("R", "P")
  /\ body[r].dIndex = Str(<<"0", "4", "1", "0">>)
  /\ body[r].device \in WellFormedDevices
  /\ body[r].battery \in WellFormedBatteries
  /\ body[r].time \in WellFormedTimes
  /\ body[r].data = S2("8", "2")

\* C7: in the servers of src/server.js, a request with the dustbin
\* credentials, cmd "RP", dIndex "0410" and well-formed device, battery, time
\* and data hands the store exactly one row, for the dustbin table, whose
\* device id is the trimmed device text, whose battery is the number the
\* battery text denotes and whose overflow percentage is the integer the data
\* text denotes; when the insert succeeds the answer is 200 {"01", ""}.
C7_DustbinScenarioIsStored ==
  variant \in {"single", "multi"} =>
    \A r \in Reqs :
      (DustbinReport(r) /\ HandlerRan(r)) =>
        /\ Cardinality(InsertsOf(r)) = 1
        /\ \A i \in InsertsOf(r) :
             /\ storeCalls[i].table = DustbinStore
             /\ storeCalls[i].record.device_id = Str(DeviceId)
             /\ storeCalls[i].record.battery = TenthsOf(body[r].battery.s)
             /\ storeCalls[i].record.overflow_percentage = TwoDigitsOf(body[r].data.s)
        /\ (Done(r) /\ storeResult[r].kind = "ok") => Reply(r) = Json(200, "01", <<>>)

\* scenario 1: DB-01, "3.7", "82" stored as DB-01, 3.7, 82 and answered "01"
C7_Witness ==
  \E r \in Reqs :
    /\ variant = "multi"
    /\ DustbinReport(r)
    /\ body[r] = DustbinBody
    /\ Done(r)
    /\ Reply(r) = Json(200, "01", <<>>)
    /\ \E i \in InsertsOf(r) :
         /\ storeCalls[i].table = "dustbin_sensor_data"
         /\ storeCalls[i].record.device_id = Str(DeviceId)
         /\ storeCalls[i].record.battery = Fin(37, 1)
         /\ storeCalls[i].record.overflow_percentage = Fin(82, 0)

(***************************************************************************)
(* C8                                                                      *)
(***************************************************************************)
\* C8: no request has more than one insert made for it, and a request whose
\* insert returned an error (or rejected) has been answered once, with status
\* "00" and a non-empty message that ends with the store's message.
C8_StoreFailureSurfacedWithoutRetry ==
  \A r \in Reqs :
    /\ Cardinality(InsertsOf(r)) <= 1
    /\ storeResult[r].kind \in {"error", "reject"} =>
         /\ Done(r)
         /\ Len(resp[r]) = 1
         /\ Reply(r).status = "00"
         /\ Reply(r).message # <<>>
         /\ EndsWith(Reply(r).message, storeResult[r].message)

\* an insert that failed with "duplicate key", answered "00" with that text
C8_Witness ==
  \E r \in Reqs :
    /\ variant = "multi"
    /\ storeResult[r] = [kind |-> "error", message |-> <<"duplicate", "key">>]
    /\ Done(r)
    /\ Reply(r) = Json(500, "00", <<"Database", "error", ":", "duplicate", "key">>)
    /\ Cardinality(InsertsOf(r)) = 1

(***************************************************************************)
(* C9                                                                      *)
(***************************************************************************)
\* what kind of outcome the answer of r reports, read from the store's
\* result and the message text
OutcomeOf(r) ==
  IF storeResult[r].kind \in {"error", "reject"} THEN "store"
  ELSE IF Reply(r).status = "01" THEN "success"
  ELSE IF Contains(Reply(r).message, "Authentication") THEN "authentication"
  ELSE IF StartsWith(Reply(r).message, MsgLegacyInternal) THEN "unexpected"
  ELSE "validation"

\* C9 as claimed: validation failures and successes are answered HTTP 200,
\* authentication failures 401, store failures and unexpected errors 500.
C9_ValidationFailuresAnswered200 ==
  \A r \in Reqs :
    Done(r) =>
      Reply(r).http =
        CASE OutcomeOf(r) \in {"success", "validation"} -> 200
          [] OutcomeOf(r) = "authentication" -> 401
          [] OTHER -> 500

\* C9 as amended: the servers of src/server.js answer a success with HTTP
\* 200, every validation failure with 400, an authentication failure with
\* 401 and a store failure or unexpected error with 500; the unauthenticated
\* server answers every outcome with HTTP 200.
C9_HttpStatusMapping ==
  \A r \in Reqs :
    Done(r) =>
      Reply(r).http =
        CASE variant = "legacy" -> 200
          [] OutcomeOf(r) = "success" -> 200
          [] OutcomeOf(r) = "validation" -> 400
          [] OutcomeOf(r) = "authentication" -> 401
          [] OTHER -> 500

\* a manhole report with a wrong cmd, answered HTTP 400
C9_Witness ==
  \E r \in Reqs :
    /\ variant = "multi"
    /\ sensorType[r] = "manhole"
    /\ Done(r)
    /\ OutcomeOf(r) = "validation"
    /\ Reply(r) = Json(400, "00", MsgManholeCommand)

(***************************************************************************)
(* C10                                                                     *)
(***************************************************************************)
\* C10: in the servers of src/server.js, every row handed to the store has
\* a device id that is a non-empty string, the request's device text with
\* surrounding white space removed.
C10_DeviceIdTrimmedNonEmpty ==
  variant \in {"single", "multi"} =>
    \A i \in 1..Len(storeCalls) :
      LET id == storeCalls[i].record.device_id
          device == body[storeCalls[i].req].device
      IN /\ IsStr(id)
         /\ IsStr(device)
         /\ id = Str(Trim(device.s))
         /\ id.s # <<>>

(***************************************************************************)
(* C11                                                                     *)
(***************************************************************************)
\* a finite number: not NaN, not +/-Infinity, not null
IsFinite(x) == IsNum(x) /\ x.kind = "fin"
\* the answer says the value did not parse
InvalidValueReply(r) ==
  /\ Done(r)
  /\ Reply(r).status = "00"
  /\ \/ StartsWith(Reply(r).message, MsgInvalidValue)
     \/ StartsWith(Reply(r).message, MsgManholeValue)

\* C11: in the servers of src/server.js, every row handed to the store has a
\* battery that is a finite number, and a request whose handler has run on a
\* present battery that does not parse as a finite number, every earlier
\* check passing, has no insert and is answered with the invalid-value error.
C11_BatteryStoredIsFinite ==
  variant \in {"single", "multi"} =>
    /\ \A i \in 1..Len(storeCalls) : IsFinite(storeCalls[i].record.battery)
    /\ \A r \in Reqs :
         LET type == AuthenticatedType(r)
         IN (type # "" /\ HandlerRan(r) /\ AllRequiredPresent(r, type)
             /\ body[r].cmd = ExpectedCommand(type)
             /\ body[r].dIndex = ExpectedIndex(type)
             /\ ~IsFinite(parseFloat(body[r].battery))) =>
              /\ InsertsOf(r) = {}
              /\ InvalidValueReply(r)

(***************************************************************************)
(* C12                                                                     *)
(***************************************************************************)
\* the body's time text is a valid YYYY-MM-DD HH:mm:ss timestamp
ValidTime(b) == IsStr(b.time) /\ ParseMoment(b.time.s).valid
\* every check of the authenticated type's handler passes for r's body
PassesValidation(r, type) ==
  /\ AllRequiredPresent(r, type)
  /\ body[r].cmd = ExpectedCommand(type)
  /\ body[r].dIndex = ExpectedIndex(type)
  /\ ~isNaN(parseFloat(body[r].battery))
  /\ type = "dustbin" => ~isNaN(parseInt(body[r].data))
  /\ IsStr(body[r].device)

\* C12: in the servers of src/server.js, a request that passes validation
\* is handed to the store whether or not its time text is a valid timestamp;
\* the stored UTC received-time is the body's time unchanged, and when the
\* time text is not a valid timestamp the stored local received-time equals
\* the stored UTC received-time.
C12_InvalidTimeCarriesUtcForward ==
  variant \in {"single", "multi"} =>
    /\ \A r \in Reqs :
         LET type == AuthenticatedType(r)
         IN (type # "" /\ HandlerRan(r) /\ PassesValidation(r, type)) =>
              InsertsOf(r) # {}
    /\ \A i \in 1..Len(storeCalls) :
         LET b == body[storeCalls[i].req]
             row == storeCalls[i].record
         IN /\ row.received_time_utc = b.time
            /\ ~ValidTime(b) => row.received_time = row.received_time_utc

(***************************************************************************)
(* C13                                                                     *)
(***************************************************************************)
\* the body keys outside cmd, device, battery, time and dIndex
SensorSpecificFields ==
  {"data", "battery_low", "dt_state", "dt_waterLV", "dt_x", "dt_y", "dt_z"}
\* the key whose values are flags
BooleanFields == {"battery_low"}
\* the column of the rows of src/server.js that holds body key f
ColumnOf(f) ==
  CASE f = "data" -> "overflow_percentage"
    [] f = "battery_low" -> "battery_low"
    [] f = "dt_state" -> "cover_status"
    [] f = "dt_waterLV" -> "water_level_cm"
    [] f = "dt_x" -> "x_axis_degree"
    [] f = "dt_y" -> "y_axis_degree"
    [] f = "dt_z" -> "z_axis_degree"
\* a text that is a decimal number (the inputs' numbers are unsigned integers)
NumericText(s) == s # <<>> /\ AllDigits(s)
\* the stored value the coercion rule gives body key f with value v
Coerced(f, v) ==
  IF ~IsStr(v) THEN v
  ELSE IF f \in BooleanFields /\ v.s \in {<<"0">>, <<"1">>} THEN Bool(v.s = <<"1">>)
  ELSE IF NumericText(v.s) THEN Int10(DigitsValue(v.s))
  ELSE v

\* C13: in the servers of src/server.js, every row handed to the store holds,
\* for each sensor-specific body key the request carries, the coerced value:
\* the number for a numeric text, true/false for "1"/"0" of a flag key, the
\* original text for any other text, and a non-string value as it is.
C13_SensorFieldsAreCoerced ==
  variant \in {"single", "multi"} =>
    \A i \in 1..Len(storeCalls) :
      LET b == body[storeCalls[i].req]
          row == storeCalls[i].record
      IN \A f \in SensorSpecificFields :
           (ColumnOf(f) \in DOMAIN row /\ b[f] # Undef) =>
             row[ColumnOf(f)] = Coerced(f, b[f])

(***************************************************************************)
(* C14                                                                     *)
(***************************************************************************)
\* the rules a body can violate, each stated on its own
ViolatesPresence(b, type) == \E f \in RequiredFields(type) : ~Truthy(b[f])
ViolatesCommand(b, type) == b.cmd # ExpectedCommand(type)
ViolatesIndex(b, type) == b.dIndex # ExpectedIndex(type)
ViolatesNumeric(b, type) ==
  \/ isNaN(parseFloat(b.battery))
  \/ type = "dustbin" /\ isNaN(parseInt(b.data))
\* the first words of the message each step answers with
StepMessage(step) ==
  CASE step = "presence" -> MsgMissingFields
    [] step = "command" -> MsgInvalidCommand
    [] step = "index" -> MsgInvalidIndex
    [] step = "numeric" -> <<"Invalid", "battery">>
\* the earliest step of presence, command, index, numeric that b violates
EarliestViolation(b, type) ==
  IF ViolatesPresence(b, type) THEN "presence"
  ELSE IF ViolatesCommand(b, type) THEN "command"
  ELSE IF ViolatesIndex(b, type) THEN "index"
  ELSE IF ViolatesNumeric(b, type) THEN "numeric"
  ELSE "none"
\* how many of the four rules b violates
ViolationCount(b, type) ==
  Cardinality({x \in {"presence", "command", "index", "numeric"} :
                 \/ x = "presence" /\ ViolatesPresence(b, type)
                 \/ x = "command" /\ ViolatesCommand(b, type)
                 \/ x = "index" /\ ViolatesIndex(b, type)
                 \/ x = "numeric" /\ ViolatesNumeric(b, type)})

\* C14: once the handler of an authenticated request has run on a body that
\* violates at least one of the rules presence, command code, data index,
\* numeric parse, the request has no insert and exactly one answer, status
\* "00", whose message is that of the earliest violated step in the order
\* presence, command, index, numeric, and of no other step.
C14_EarliestViolationIsReported ==
  \A r \in Reqs :
    LET type == AuthenticatedType(r)
        first == EarliestViolation(body[r], type)
    IN (type # "" /\ HandlerRan(r) /\ first # "none") =>
         /\ InsertsOf(r) = {}
         /\ Done(r)
         /\ Len(resp[r]) = 1
         /\ Reply(r).status = "00"
         /\ StartsWith(Reply(r).message, StepMessage(first))
         /\ \A other \in {"presence", "command", "index", "numeric"} \ {first} :
              ~StartsWith(Reply(r).message, StepMessage(other))

\* a dustbin report with both a wrong cmd and a wrong dIndex, answered with
\* the invalid-command message alone
C14_Witness ==
  \E r \in Reqs :
    /\ variant = "multi"
    /\ sensorType[r] = "dustbin"
    /\ body[r] = [DustbinBody EXCEPT !.cmd = S2("0", "6"),
                                     !.dIndex = Str(<<"9", "9", "9", "9">>)]
    /\ ViolationCount(body[r], "dustbin") = 2
    /\ Done(r)
    /\ resp[r] = <<Json(400, "00", MsgInvalidCommand)>>

(***************************************************************************)
(* C15                                                                     *)
(***************************************************************************)
\* request r bears the pair of a type the running server serves and its body
\* passes every validation step of that type
AuthenticatedAndValid(r) ==
  \E j \in Served : BearsPair(r, j) /\ PassesValidation(r, registry[j].type)

\* C15: every insert handed to the store was made for a request whose
\* credentials match a registered sensor type and whose body passed all the
\* validation steps of that type, the request having gone through
\* authentication before; no insert is made for an unauthenticated request.
C15_InsertOnlyAfterAuthAndValidation ==
  \A i \in 1..Len(storeCalls) :
    LET r == storeCalls[i].req
    IN /\ pc[r] \in {"awaitStore", "done"}
       /\ Registered(r)
       /\ AuthenticatedAndValid(r)

(***************************************************************************)
(* C16                                                                     *)
(***************************************************************************)
\* what a request with headers m, k and body b reaches when it is the only
\* request the multi-sensor server ever handles
AloneOutcome(m, k, b) ==
  LET i == MatchSensor(SENSOR_CREDENTIALS, m, k)
  IN IF HeaderFalsy(m) \/ HeaderFalsy(k)
       THEN Respond(Json(401, "00", MsgAuthMissing))
     ELSE IF i = 0
       THEN Respond(Json(401, "00", MsgAuthInvalid))
     ELSE DispatchMulti(SENSOR_CREDENTIALS[i].type, b, SENSOR_CREDENTIALS[i], tz)

\* the answer and the inserts of r are those of r alone
DecidedByOwnInputs(r) ==
  LET alone == AloneOutcome(hdrM[r], hdrK[r], body[r])
  IN /\ \A i \in InsertsOf(r) :
          /\ alone.kind = "insert"
          /\ storeCalls[i].table = alone.table
          /\ storeCalls[i].record = alone.record
     /\ HandlerRan(r) => Cardinality(InsertsOf(r)) = (IF alone.kind = "insert" THEN 1 ELSE 0)
     /\ Done(r) =>
          resp[r] = << IF alone.kind = "respond" THEN alone.resp
                       ELSE AfterInsert(storeResult[r]) >>

\* the per-request state of r
StateOf(r) ==
  <<pc[r], hdrM[r], hdrK[r], body[r], sensorType[r], sensorConfig[r], resp[r], storeResult[r]>>

\* a step writes the state of one request at most, only appends to the
\* store's log, and leaves the registry as it is
StepTouchesOneRequest ==
  /\ registry' = registry
  /\ \A r1, r2 \in Reqs :
       (StateOf(r1)' # StateOf(r1) /\ StateOf(r2)' # StateOf(r2)) => r1 = r2
  /\ Len(storeCalls') >= Len(storeCalls)
  /\ SubSeq(storeCalls', 1, Len(storeCalls)) = storeCalls

\* C16: in the multi-sensor server, under every interleaving of the requests
\* in flight, the registry stays as it was at start-up, each step writes the
\* state of one request only, and the inserts made for a request and the
\* answer it gets are those the request would get alone: they depend on its
\* own headers and body and on what its own insert returned, and on nothing
\* another request did.
C16_RequestsAreIndependent ==
  /\ [](registry = SENSOR_CREDENTIALS /\ \A r \in Reqs : DecidedByOwnInputs(r))
  /\ [][StepTouchesOneRequest]_vars

\* a dustbin report is suspended at its insert while a manhole report that
\* authenticated and inserted after it has already been answered
C16_Witness ==
  \E r1, r2 \in Reqs :
    /\ r1 # r2
    /\ variant = "multi"
    /\ sensorType[r1] = "dustbin" /\ pc[r1] = "awaitStore"
    /\ sensorType[r2] = "manhole" /\ Done(r2)
    /\ \E i \in InsertsOf(r1) : \E j \in InsertsOf(r2) :
         /\ i < j
         /\ storeCalls[i].table = "dustbin_sensor_data"
         /\ storeCalls[j].table = "manhole_sensor_data"
    /\ Reply(r2) = Json(200, "01", <<>>)

(***************************************************************************)
(* C17                                                                     *)
(***************************************************************************)
\* at most one response has been sent for r, and exactly one once r has left
\* the middleware chain
AnsweredOnce(r) ==
  /\ Len(resp[r]) <= 1
  /\ Done(r) <=> Len(resp[r]) = 1

\* C17: no request is ever sent a second response and none leaves the chain
\* without one, whichever path it takes (authentication failure, early
\* validation return, exception caught by the handler, store error, store
\* rejection, success); and, the event loop running every ready callback and
\* the store settling every insert, every request received is eventually
\* answered.
C17_ExactlyOneResponse ==
  /\ [](\A r \in Reqs : AnsweredOnce(r))
  /\ \A r \in Reqs : (pc[r] = "received") ~> (Done(r) /\ Len(resp[r]) = 1)

\* the dustbin report whose device is a number: device.trim() throws inside
\* the handler's try and the catch block sends the one answer
C17_Witness ==
  \E r \in Reqs :
    /\ variant = "multi"
    /\ body[r].device = Int10(5)
    /\ Done(r)
    /\ InsertsOf(r) = {}
    /\ resp[r] = <<Json(500, "00", MsgInternalError \o MsgTrimTypeError)>>

====
